---- MODULE Spec2Model ----
(***************************************************************************)
(* Authentication and request-dispatch core of the Cloud Connexa client:   *)
(* the Authenticator (client/auth.py), the client's _request dispatcher    *)
(* (client/base.py) and the resource services that sit next to it.         *)
(*                                                                         *)
(* Time is in seconds.  A thread is blocked while it is idle or waits for  *)
(* an HTTP response; local computation takes no time, so the clock only    *)
(* advances while every thread is blocked.                                 *)
(***************************************************************************)
EXTENDS Integers, Sequences, FiniteSets, TLC

\* ---------------------------------------------------------------- bounds
MaxTime == 41
TickStep == 10

\* ------------------------------------------------------- program constants
Buffer == 30

\* ----------------------------------------------------------- value spaces
None == "None"
NoneNum == -1

Threads == {1, 2}
SeqThreads == {1}

Tokens == {"tokA", "tokB"}
ExpiresIns == {0, 30, 60}
AuthStatuses == {200, 401, 500}
RequestExceptions == {"ConnectionError", "Timeout"}

ApiStatuses == {200, 201, 204, 400, 401, 404, 429, 500}
Methods == {"GET"}
Services == {"networks", "users", "network"}
Operations == {"list", "get", "create", "update", "delete"}

\* The two CloudConnexaClient classes: "base" is client/base.py, "package" is
\* client/__init__.py, the one the package exports.
ClientClasses == {"base", "package"}
ResourceId == "abc"

\* A path is a sequence of pieces: "/" or a slash-free chunk of characters.
Paths == { <<"/", "networks", "/", "abc">>,
           <<"networks", "/", "abc", "/">> }

\* JSON objects are functions from keys to values.
EmptyDict == [k \in {} |-> 0]
JObject(d) == [j |-> "object", v |-> d]
JArray(n) == [j |-> "array", n |-> n]
JNull == [j |-> "null"]
JScalar == [j |-> "scalar"]

\* Bodies of error responses: {error: {code?, message?, retry_after?, details?}}.
ErrorBodies == { JObject(EmptyDict),
                 JObject([error |-> [code |-> "not_found"]]),
                 JObject([error |-> [retry_after |-> 30]]),
                 JObject([error |-> [message |-> "boom"]]),
                 JObject([error |-> [code |-> "validation_error",
                                     details |-> [name |-> "Name cannot be empty"]]]) }

\* Bodies of successful responses: a bare array of n items, an object with a
\* data array and an optional pagination object, a single resource.
SuccessBodies == { JArray(0), JArray(2),
                   JObject([data |-> JArray(2)]),
                   JObject([data |-> JArray(1), pagination |-> JObject([total |-> 5])]),
                   JObject([id |-> "abc", name |-> "net"]),
                   JObject([id |-> "abc", name |-> "net",
                            created_at |-> "2024-01-01T00:00:00Z"]),
                   JObject([id |-> "abc", name |-> "net", created_at |-> "yesterday"]) }

\* Bodies a list endpoint may answer with besides those: an object whose
\* pagination has some of total, page, per_page, has_more, and bodies that are
\* JSON but no list (null, a scalar, data or pagination null or a scalar).
ListBodies == { JObject([data |-> JArray(1), pagination |-> JObject(EmptyDict)]),
                JObject([data |-> JArray(2),
                         pagination |-> JObject([page |-> 2, has_more |-> TRUE])]),
                JObject([data |-> JArray(2),
                         pagination |-> JObject([total |-> 7, page |-> 2, per_page |-> 2,
                                                 has_more |-> TRUE])]),
                JNull, JScalar,
                JObject([data |-> JNull]),
                JObject([data |-> JScalar]),
                JObject([data |-> JArray(1), pagination |-> JNull]) }
RetryAfterHeaders == {None, "60"}

\* The client's configuration, as pieces like a path.
ApiUrl == <<"https://api.example.com">>
ApiVersion == <<"1.1.0">>

\* Client objects, for the service registries: two of the class of
\* client/base.py and one of the class of client/__init__.py.
Clients == {1, 2, 3}
ClassOf(c) == IF c = 3 THEN "package" ELSE "base"
ServiceNames == {"dns", "user_groups", "ip_services", "networks", "users"}

\* What the constructor may be given: a URL that is none, the versions it
\* knows with and without a v, and two it does not know; <<>> is an argument
\* or an environment variable that is not set.
UrlInputs == { ApiUrl, ApiUrl \o <<"/">>, <<"invalid-url">> }
VersionInputs == { <<>>, <<"1.0">>, <<"1.1.0">>, <<"v", "1.0">>, <<"2.0">>, <<"latest">> }
EnvVersions == { <<>>, <<"1.0">>, <<"2.0">> }

\* The base URLs and the api_version arguments the constructor accepts: a URL
\* may end in a slash, a version may start with a v.
ApiUrls == { ApiUrl, ApiUrl \o <<"/">> }
ApiVersions == { <<"1.0">>, <<"1.1.0">>, <<"v", "1.0">>, <<"v", "1.1.0">> }

\* Python objects: None, True, an Optional[str], a parsed JSON object.
PyNone == [py |-> "None"]
PyTrue == [py |-> "True"]
PyFalse == [py |-> "False"]
PyStr(x) == [py |-> "str", v |-> x]
PyInt(n) == [py |-> "int", v |-> n]
PyOptStr(x) == IF x = None THEN PyNone ELSE PyStr(x)
PyDict(d) == [py |-> "dict", v |-> d]

\* response.text: the body as it came, before any parsing
Text(response) == [py |-> "text", content |-> response.content, of |-> response.json]

VARIABLES api_url, api_version, services, made, server, now, token, token_expiry, pc,
          call, resp, obs, sent, result

vars == <<api_url, api_version, services, made, server, now, token, token_expiry, pc, call,
          resp, obs, sent, result>>

\* ------------------------------------------------------------- Python bits
\* Truthiness of an Optional[str] and of an Optional[float] attribute.
TruthyStr(x) == x /= None /\ x /= ""

TruthyNum(x) == x /= NoneNum /\ x /= 0

\* dict.get(key, default)
Get(d, k, default) == IF k \in DOMAIN d THEN d[k] ELSE default

\* ------------------------------------------------------------ HTTP traffic
NoResp == [exc |-> None, status |-> 0, access_token |-> None, expires_in |-> 0]

AuthResponses ==
    { [exc |-> None, status |-> 200, access_token |-> a, expires_in |-> e] :
        a \in Tokens, e \in ExpiresIns }
    \cup { [exc |-> None, status |-> s, access_token |-> None, expires_in |-> 0] :
        s \in AuthStatuses \ {200} }
    \cup { [exc |-> x, status |-> 0, access_token |-> None, expires_in |-> 0] :
        x \in RequestExceptions }

\* A key that the JSON body of a response does not have
Absent == "<absent>"
AbsentNum == -2

\* 200 answers of a token endpoint whose body lacks access_token, expires_in
\* or both
IncompleteAuthResponses ==
    { [exc |-> None, status |-> 200, access_token |-> a, expires_in |-> e] :
        a \in Tokens \cup {Absent}, e \in ExpiresIns \cup {AbsentNum} }
    \ AuthResponses

\* What the token endpoint of the server can answer
AuthAnswers ==
    IF server = "conforming" THEN AuthResponses
    ELSE AuthResponses \cup IncompleteAuthResponses

\* content is the raw body ("" when there is none), json what json() parses it to.
\* The server sends error bodies with error statuses, and a Retry-After
\* header with a 429 only.
BodiesOf(status) ==
    IF status >= 400 THEN ErrorBodies
    ELSE IF status = 200 THEN SuccessBodies \cup ListBodies
    ELSE SuccessBodies

HeadersOf(status) == IF status = 429 THEN RetryAfterHeaders ELSE {None}

ApiResponses ==
    { [exc |-> None, status |-> s, content |-> "json", json |-> j, retry_after_hdr |-> h] :
        s \in ApiStatuses \ {204}, j \in ErrorBodies \cup SuccessBodies \cup ListBodies,
        h \in RetryAfterHeaders }
    \cup { [exc |-> None, status |-> s, content |-> "", json |-> JNull, retry_after_hdr |-> h] :
        s \in ApiStatuses, h \in RetryAfterHeaders }
    \cup { [exc |-> x, status |-> 0, content |-> "", json |-> JNull, retry_after_hdr |-> None] :
        x \in RequestExceptions }

WireResponses ==
    { r \in ApiResponses :
        r.exc = None => /\ r.retry_after_hdr \in HeadersOf(r.status)
                        /\ (r.content /= "" => r.json \in BodiesOf(r.status)) }

\* The last API request a thread put on the wire during its current call.
NoRequest == [via |-> "none", method |-> "none", url |-> <<>>, authz |-> <<>>, ensured |-> FALSE]
Bearer(tok) == <<"Bearer", tok>>

\* ------------------------------------------------------- calls and results
NoCall == [op |-> "none", method |-> "none", path |-> <<>>, headers |-> FALSE,
           svc |-> "none", sop |-> "none", valid |-> TRUE, cls |-> "none",
           client |-> 0, name |-> "none"]

\* What a call has done so far: the HTTP calls it made on the session, in
\* order, each with the status or exception that came back (status 0 while
\* the answer is awaited), and whether ensure_authenticated() has returned.
NoObs == [log |-> <<>>, ensured |-> FALSE]
Pending(kind) == [kind |-> kind, status |-> 0, exc |-> None]
Answered(log, r) == [log EXCEPT ![Len(log)].status = r.status, ![Len(log)].exc = r.exc]
Count(log, kind) == Cardinality({i \in DOMAIN log : log[i].kind = kind})

NoResult == [kind |-> "none"]
Returned(v) == [kind |-> "return", value |-> v]
Raised(e) == [kind |-> "raise", error |-> e]

\* ------------------------------------------------------------ error classes
\* message is the f-string of the raise statement, piece by piece; it is
\* kept for APIError and left empty for the other classes.
Err(type, status_code, response, original_error) ==
    [type |-> type, message |-> <<>>, status_code |-> status_code,
     response |-> response, original_error |-> original_error,
     retry_after |-> PyNone, resource_id |-> None, details |-> PyNone]

\* An exception of another library or of the interpreter, by its class name.
Exc(type) == Err(type, NoneNum, PyNone, None)

AuthenticationError(status_code, response, original_error) ==
    Err("AuthenticationError", status_code, response, original_error)

APIError(message, status_code, response, original_error) ==
    [Err("APIError", status_code, response, original_error) EXCEPT !.message = message]

ResourceNotFoundError(resource_id, response) ==
    [Err("ResourceNotFoundError", 404, response, None) EXCEPT !.resource_id = resource_id]

\* int() of a Retry-After header value
HeaderSeconds(h) == CASE h = "60" -> PyInt(60) [] OTHER -> PyNone

\* error_data.get("error", {}) of a response whose body, if any, is an object
ErrorOf(response) ==
    IF response.content /= "" /\ response.json.j = "object"
    THEN Get(response.json.v, "error", EmptyDict)
    ELSE EmptyDict

\* error_data.get("error", {}).get("message", default), as message pieces
MessageOr(response, default) ==
    IF "message" \in DOMAIN ErrorOf(response)
    THEN <<PyStr(ErrorOf(response)["message"])>>
    ELSE default

\* f"Failed to ...: {response.status_code}"
FailedTo(what, response) == <<PyStr(what), PyInt(response.status)>>

\* The hint is the retry_after argument when the caller passes one, else
\* error.retry_after of the JSON body, else the Retry-After header, else None.
RateLimitError(retry_after, response) ==
    LET hint == Get(ErrorOf(response), "retry_after", NoneNum)
    IN  [Err("RateLimitError", 429, response, None) EXCEPT !.retry_after =
            IF retry_after /= PyNone THEN retry_after
            ELSE IF hint /= NoneNum THEN PyInt(hint)
            ELSE HeaderSeconds(response.retry_after_hdr)]

\* The details are the details argument when the caller passes one, else
\* error.details of the JSON body when it has one, else None.
ValidationError(status_code, details, response) ==
    [Err("ValidationError", IF status_code = NoneNum THEN 400 ELSE status_code,
         response, None) EXCEPT !.details =
            IF details /= PyNone THEN details
            ELSE IF response /= PyNone /\ "details" \in DOMAIN ErrorOf(response)
            THEN PyDict(ErrorOf(response)["details"])
            ELSE PyNone]

\* --------------------------------------------------------------- Authenticator
\* is_token_valid with a buffer of 50 seconds
is_token_valid_wide ==
    IF ~TruthyStr(token) \/ ~TruthyNum(token_expiry)
    THEN FALSE
    ELSE now < token_expiry - (Buffer + 20)

is_token_valid ==
    IF ~TruthyStr(token) \/ ~TruthyNum(token_expiry)
    THEN FALSE
    ELSE now < token_expiry - Buffer

\* What authenticate() of client class cls makes of the outcome out of
\* ensure_authenticated(): both classes turn an exception into False; base.py
\* returns True after a normal return, __init__.py returns what
\* ensure_authenticated() returned.
Authenticate(cls, out) ==
    IF out.kind = "raise" THEN Returned(PyFalse)
    ELSE IF cls = "base" THEN Returned(PyTrue)
    ELSE Returned(out.value)

\* ensure_authenticated() leaves with outcome out; inside _request a normal
\* return continues with the request, an exception leaves _request as it is.
\* EnsureExit as if _request caught the authentication failure and raised
\* its own APIError
EnsureExit_wrapped(t, out, log) ==
    /\ obs' = [obs EXCEPT ![t] = [log |-> log, ensured |-> (out.kind = "return")]]
    /\ IF call[t].op = "request" /\ out.kind = "return"
       THEN /\ pc' = [pc EXCEPT ![t] = "rq_send"]
            /\ UNCHANGED result
       ELSE /\ pc' = [pc EXCEPT ![t] = "idle"]
            /\ result' = [result EXCEPT ![t] =
                    IF call[t].op = "request"
                    THEN Raised(Err("APIError", NoneNum, PyNone, None))
                    ELSE IF call[t].op = "authenticate"
                    THEN Authenticate(call[t].cls, out)
                    ELSE out]

EnsureExit(t, out, log) ==
    /\ obs' = [obs EXCEPT ![t] = [log |-> log, ensured |-> (out.kind = "return")]]
    /\ IF call[t].op = "request" /\ out.kind = "return"
       THEN /\ pc' = [pc EXCEPT ![t] = "rq_send"]
            /\ UNCHANGED result
       ELSE /\ pc' = [pc EXCEPT ![t] = "idle"]
            /\ result' = [result EXCEPT ![t] =
                    IF call[t].op = "authenticate"
                    THEN Authenticate(call[t].cls, out)
                    ELSE out]

Begin(t, c, where) ==
    /\ pc[t] = "idle"
    /\ pc' = [pc EXCEPT ![t] = where]
    /\ call' = [call EXCEPT ![t] = c]
    /\ resp' = [resp EXCEPT ![t] = NoResp]
    /\ obs' = [obs EXCEPT ![t] = NoObs]
    /\ sent' = [sent EXCEPT ![t] = NoRequest]
    /\ result' = [result EXCEPT ![t] = NoResult]
    /\ UNCHANGED <<api_url, api_version, services, made, server, now, token, token_expiry>>

\* CallEnsure behind a lock that one caller holds at a time
CallEnsure_exclusive(t) ==
    /\ \A u \in Threads \ {t} : pc[u] = "idle"
    /\ Begin(t, [NoCall EXCEPT !.op = "ensure"], "ea_check")

CallEnsure(t) ==
    Begin(t, [NoCall EXCEPT !.op = "ensure"], "ea_check")

\* authenticate() of a client of class cls, up to its call of
\* ensure_authenticated()
CallAuthenticate(t, cls) ==
    Begin(t, [NoCall EXCEPT !.op = "authenticate", !.cls = cls], "ea_check")

CallToken(t) ==
    /\ pc[t] = "idle"
    /\ call' = [call EXCEPT ![t] = [NoCall EXCEPT !.op = "token"]]
    /\ resp' = [resp EXCEPT ![t] = NoResp]
    /\ obs' = [obs EXCEPT ![t] = NoObs]
    /\ sent' = [sent EXCEPT ![t] = NoRequest]
    /\ result' = [result EXCEPT ![t] = Returned(PyOptStr(token))]
    /\ UNCHANGED <<api_url, api_version, services, made, server, now, token, token_expiry, pc>>

EnsureCheck(t) ==
    /\ pc[t] = "ea_check"
    /\ IF is_token_valid
       THEN EnsureExit(t, Returned(PyNone), obs[t].log)
       ELSE /\ pc' = [pc EXCEPT ![t] = "ea_refresh"]
            /\ UNCHANGED <<obs, result>>
    /\ UNCHANGED <<api_url, api_version, services, made, server, now, token, token_expiry, call, resp, sent>>

\* TryRefresh without the refresh attempt
TryRefresh_skips(t) ==
    /\ pc[t] = "ea_refresh"
    /\ pc' = [pc EXCEPT ![t] = "acq_send"]
    /\ UNCHANGED <<api_url, api_version, services, made, server, now, token, token_expiry, call, resp, obs, sent, result>>

TryRefresh(t) ==
    /\ pc[t] = "ea_refresh"
    /\ IF TruthyStr(token)
       THEN /\ pc' = [pc EXCEPT ![t] = "rf_wait"]
            /\ obs' = [obs EXCEPT ![t].log = Append(@, Pending("refresh"))]
       ELSE /\ pc' = [pc EXCEPT ![t] = "acq_send"]
            /\ UNCHANGED obs
    /\ UNCHANGED <<api_url, api_version, services, made, server, now, token, token_expiry, call, resp, sent, result>>

\* RefreshResponse that lets a network exception of the refresh call escape
RefreshResponse_raises(t) ==
    /\ pc[t] = "rf_wait"
    /\ \E r \in AuthAnswers :
        /\ resp' = [resp EXCEPT ![t] = r]
        /\ IF r.exc /= None
           THEN EnsureExit(t, Raised(AuthenticationError(NoneNum, PyNone, r.exc)),
                           Answered(obs[t].log, r))
           ELSE /\ obs' = [obs EXCEPT ![t].log = Answered(@, r)]
                /\ UNCHANGED result
                /\ IF r.status /= 200
                   THEN pc' = [pc EXCEPT ![t] = "acq_send"]
                   ELSE pc' = [pc EXCEPT ![t] = "rf_set_token"]
    /\ UNCHANGED <<api_url, api_version, services, made, server, now, token, token_expiry, call, sent>>

RefreshResponse(t) ==
    /\ pc[t] = "rf_wait"
    /\ \E r \in AuthAnswers :
        /\ resp' = [resp EXCEPT ![t] = r]
        /\ obs' = [obs EXCEPT ![t].log = Answered(@, r)]
        /\ IF r.exc /= None \/ r.status /= 200
           THEN pc' = [pc EXCEPT ![t] = "acq_send"]
           ELSE pc' = [pc EXCEPT ![t] = "rf_set_token"]
    /\ UNCHANGED <<api_url, api_version, services, made, server, now, token, token_expiry, call, sent, result>>

\* data["access_token"] raises KeyError for a body without the key; the
\* except clause of _refresh_token catches RequestException only.
RefreshSetToken(t) ==
    /\ pc[t] = "rf_set_token"
    /\ IF resp[t].access_token = Absent
       THEN /\ EnsureExit(t, Raised(Exc("KeyError")), obs[t].log)
            /\ UNCHANGED token
       ELSE /\ token' = resp[t].access_token
            /\ pc' = [pc EXCEPT ![t] = "rf_set_expiry"]
            /\ UNCHANGED <<obs, result>>
    /\ UNCHANGED <<api_url, api_version, services, made, server, now, token_expiry, call, resp, sent>>

RefreshSetExpiry(t) ==
    /\ pc[t] = "rf_set_expiry"
    /\ IF resp[t].expires_in = AbsentNum
       THEN /\ EnsureExit(t, Raised(Exc("KeyError")), obs[t].log)
            /\ UNCHANGED token_expiry
       ELSE /\ token_expiry' = now + resp[t].expires_in
            /\ EnsureExit(t, Returned(PyNone), obs[t].log)
    /\ UNCHANGED <<api_url, api_version, services, made, server, now, token, call, resp, sent>>

AcquireSend(t) ==
    /\ pc[t] = "acq_send"
    /\ pc' = [pc EXCEPT ![t] = "acq_wait"]
    /\ obs' = [obs EXCEPT ![t].log = Append(@, Pending("acquire"))]
    /\ UNCHANGED <<api_url, api_version, services, made, server, now, token, token_expiry, call, resp, sent, result>>

\* AcquireResponse that raises without the status code and the response
AcquireResponse_bare(t) ==
    /\ pc[t] = "acq_wait"
    /\ \E r \in AuthAnswers :
        /\ resp' = [resp EXCEPT ![t] = r]
        /\ IF r.exc /= None \/ r.status /= 200
           THEN EnsureExit(t, Raised(AuthenticationError(NoneNum, PyNone, None)),
                           Answered(obs[t].log, r))
           ELSE /\ pc' = [pc EXCEPT ![t] = "acq_set_token"]
                /\ obs' = [obs EXCEPT ![t].log = Answered(@, r)]
                /\ UNCHANGED result
    /\ UNCHANGED <<api_url, api_version, services, made, server, now, token, token_expiry, call, sent>>

\* AcquireResponse that forgets the stored token when the acquisition fails
AcquireResponse_clears(t) ==
    /\ pc[t] = "acq_wait"
    /\ \E r \in AuthAnswers :
        /\ resp' = [resp EXCEPT ![t] = r]
        /\ IF r.exc /= None
           THEN /\ EnsureExit(t, Raised(AuthenticationError(NoneNum, PyNone, r.exc)),
                              Answered(obs[t].log, r))
                /\ token' = None
                /\ token_expiry' = NoneNum
           ELSE IF r.status /= 200
           THEN /\ EnsureExit(t, Raised(AuthenticationError(r.status, r, None)),
                              Answered(obs[t].log, r))
                /\ token' = None
                /\ token_expiry' = NoneNum
           ELSE /\ pc' = [pc EXCEPT ![t] = "acq_set_token"]
                /\ obs' = [obs EXCEPT ![t].log = Answered(@, r)]
                /\ UNCHANGED <<result, token, token_expiry>>
    /\ UNCHANGED <<api_url, api_version, services, made, server, now, call, sent>>

AcquireResponse(t) ==
    /\ pc[t] = "acq_wait"
    /\ \E r \in AuthAnswers :
        /\ resp' = [resp EXCEPT ![t] = r]
        /\ IF r.exc /= None
           THEN EnsureExit(t, Raised(AuthenticationError(NoneNum, PyNone, r.exc)),
                           Answered(obs[t].log, r))
           ELSE IF r.status /= 200
           THEN EnsureExit(t, Raised(AuthenticationError(r.status, r, None)),
                           Answered(obs[t].log, r))
           ELSE /\ pc' = [pc EXCEPT ![t] = "acq_set_token"]
                /\ obs' = [obs EXCEPT ![t].log = Answered(@, r)]
                /\ UNCHANGED result
    /\ UNCHANGED <<api_url, api_version, services, made, server, now, token, token_expiry, call, sent>>

\* data["access_token"] raises KeyError for a body without the key; the
\* except clause of _acquire_token catches RequestException only.
AcquireSetToken(t) ==
    /\ pc[t] = "acq_set_token"
    /\ IF resp[t].access_token = Absent
       THEN /\ EnsureExit(t, Raised(Exc("KeyError")), obs[t].log)
            /\ UNCHANGED token
       ELSE /\ token' = resp[t].access_token
            /\ pc' = [pc EXCEPT ![t] = "acq_set_expiry"]
            /\ UNCHANGED <<obs, result>>
    /\ UNCHANGED <<api_url, api_version, services, made, server, now, token_expiry, call, resp, sent>>

\* AcquireSetExpiry that stores expires_in itself
AcquireSetExpiry_relative(t) ==
    /\ pc[t] = "acq_set_expiry"
    /\ token_expiry' = resp[t].expires_in
    /\ EnsureExit(t, Returned(PyNone), obs[t].log)
    /\ UNCHANGED <<api_url, api_version, services, made, server, now, token, call, resp, sent>>

AcquireSetExpiry(t) ==
    /\ pc[t] = "acq_set_expiry"
    /\ IF resp[t].expires_in = AbsentNum
       THEN /\ EnsureExit(t, Raised(Exc("KeyError")), obs[t].log)
            /\ UNCHANGED token_expiry
       ELSE /\ token_expiry' = now + resp[t].expires_in
            /\ EnsureExit(t, Returned(PyNone), obs[t].log)
    /\ UNCHANGED <<api_url, api_version, services, made, server, now, token, call, resp, sent>>

\* ----------------------------------------------------------------- constructor
\* str.lstrip('v')
RECURSIVE lstrip_v(_)
lstrip_v(p) == IF p /= <<>> /\ Head(p) = "v" THEN lstrip_v(Tail(p)) ELSE p

\* re.match(r'^https?://[a-zA-Z0-9.-]+\.[a-zA-Z]{2,}(?:/.*)?$', api_url)
UrlFormat(url) == url /= <<>> /\ url[1] = ApiUrl[1]

\* re.match(r'^v?\d+\.\d+(\.\d+)?$', api_version)
VersionFormat(version) ==
    LET dotted == {"1.0", "1.1.0", "2.0"}
    IN  \/ Len(version) = 1 /\ version[1] \in dotted
        \/ Len(version) = 2 /\ version[1] = "v" /\ version[2] \in dotted

\* __init__ of class cls with the arguments url and version while the
\* environment has CLOUDCONNEXA_API_VERSION = env: the error it raises, or None
ConstructError(cls, url, version, env) ==
    IF cls = "package" THEN None
    ELSE IF ~UrlFormat(url) THEN "ValueError"
    ELSE IF version /= <<>> /\ ~VersionFormat(version) THEN "ValueError"
    ELSE IF version /= <<>> /\ lstrip_v(version) \notin {<<"1.0">>, <<"1.1.0">>}
    THEN "ValueError"
    ELSE None

\* The api_version the constructed client has.
ConstructVersion(cls, version, env) ==
    IF version /= <<>> THEN version
    ELSE IF cls = "base" /\ env /= <<>> THEN env
    ELSE <<"1.1.0">>

\* CloudConnexaClient(api_url=url, ..., api_version=version); api_version is
\* <<>> as long as no client has been constructed.
Construct(t, cls, url, version, env) ==
    /\ api_version = <<>>
    /\ pc[t] = "idle"
    /\ call' = [call EXCEPT ![t] = [NoCall EXCEPT !.op = "construct", !.cls = cls]]
    /\ IF ConstructError(cls, url, version, env) /= None
       THEN /\ result' = [result EXCEPT ![t] =
                    Raised(Exc(ConstructError(cls, url, version, env)))]
            /\ UNCHANGED <<api_url, api_version>>
       ELSE /\ result' = [result EXCEPT ![t] = Returned(PyNone)]
            /\ api_url' = url
            /\ api_version' = ConstructVersion(cls, version, env)
    /\ UNCHANGED <<services, made, server, now, token, token_expiry, pc, resp, obs, sent>>

\* ------------------------------------------------------------ service registry
\* A service object: the serial-th one constructed for client c under name.
ServiceInstance(c, name, serial) ==
    [py |-> "service", client |-> c, name |-> name, serial |-> serial]

\* DNSService(client), UserGroupService(client), IPServiceService(client)
StubService(c, name, serial) == ServiceInstance(c, name, serial)

\* The service properties a client class has: base.py has the five,
\* __init__.py has networks and a users that returns None.
HasProperty(cls, name) == cls = "base" \/ name \in {"networks", "users"}

\* AccessCheck that never looks into the registry
AccessCheck_uncached(t, c, name) ==
    /\ pc[t] = "idle"
    /\ call' = [call EXCEPT ![t] = [NoCall EXCEPT !.op = "access", !.client = c,
                                        !.name = name, !.cls = ClassOf(c)]]
    /\ IF ~HasProperty(ClassOf(c), name)
       THEN /\ result' = [result EXCEPT ![t] = Raised(Exc("AttributeError"))]
            /\ UNCHANGED pc
       ELSE IF ClassOf(c) = "package" /\ name = "users"
       THEN /\ result' = [result EXCEPT ![t] = Returned(PyNone)]
            /\ UNCHANGED pc
       ELSE /\ result' = [result EXCEPT ![t] = NoResult]
            /\ pc' = [pc EXCEPT ![t] = "sv_make"]
    /\ UNCHANGED <<api_url, api_version, services, made, server, now, token, token_expiry,
                   resp, obs, sent>>

\* A service property of client c up to its look into the registry: a
\* service that is there is returned.
AccessCheck(t, c, name) ==
    /\ pc[t] = "idle"
    /\ call' = [call EXCEPT ![t] = [NoCall EXCEPT !.op = "access", !.client = c,
                                        !.name = name, !.cls = ClassOf(c)]]
    /\ IF ~HasProperty(ClassOf(c), name)
       THEN /\ result' = [result EXCEPT ![t] = Raised(Exc("AttributeError"))]
            /\ UNCHANGED pc
       ELSE IF ClassOf(c) = "package" /\ name = "users"
       THEN /\ result' = [result EXCEPT ![t] = Returned(PyNone)]
            /\ UNCHANGED pc
       ELSE IF services[c][name] /= PyNone
       THEN /\ result' = [result EXCEPT ![t] = Returned(services[c][name])]
            /\ UNCHANGED pc
       ELSE /\ result' = [result EXCEPT ![t] = NoResult]
            /\ pc' = [pc EXCEPT ![t] = "sv_make"]
    /\ UNCHANGED <<api_url, api_version, services, made, server, now, token, token_expiry,
                   resp, obs, sent>>

\* AccessMake that refuses to store a second service under a name
AccessMake_once(t) ==
    /\ pc[t] = "sv_make"
    /\ LET c == call[t].client
           name == call[t].name
           serial == made[c][name] + 1
           service == ServiceInstance(c, name, serial)
       IN  IF services[c][name] /= PyNone
           THEN /\ result' = [result EXCEPT ![t] = Raised(Exc("RuntimeError"))]
                /\ UNCHANGED <<made, services>>
           ELSE /\ made' = [made EXCEPT ![c][name] = serial]
                /\ services' = [services EXCEPT ![c][name] = service]
                /\ result' = [result EXCEPT ![t] = Returned(service)]
    /\ pc' = [pc EXCEPT ![t] = "idle"]
    /\ UNCHANGED <<api_url, api_version, server, now, token, token_expiry, call, resp, obs,
                   sent>>

\* The rest of the property: the service is constructed, stored and returned.
AccessMake(t) ==
    /\ pc[t] = "sv_make"
    /\ LET c == call[t].client
           name == call[t].name
           serial == made[c][name] + 1
           service == IF name \in {"networks", "users"}
                      THEN ServiceInstance(c, name, serial)
                      ELSE StubService(c, name, serial)
       IN  /\ made' = [made EXCEPT ![c][name] = serial]
           /\ services' = [services EXCEPT ![c][name] = service]
           /\ result' = [result EXCEPT ![t] = Returned(service)]
    /\ pc' = [pc EXCEPT ![t] = "idle"]
    /\ UNCHANGED <<api_url, api_version, server, now, token, token_expiry, call, resp, obs,
                   sent>>

\* ------------------------------------------------------------------ Dispatcher
\* str.lstrip('/')
RECURSIVE lstrip(_)
lstrip(p) == IF p /= <<>> /\ Head(p) = "/" THEN lstrip(Tail(p)) ELSE p

\* str.split('/'): the pieces between the slashes, empty ones included
RECURSIVE split(_)
split(p) ==
    IF p = <<>> THEN <<"">>
    ELSE LET rest == split(SubSeq(p, 1, Len(p) - 1))
             last == p[Len(p)]
         IN  IF last = "/" THEN Append(rest, "")
             ELSE [rest EXCEPT ![Len(rest)] = last]

\* f"{self.api_url}/api/v{self.api_version}/{path.lstrip('/')}"
BuildUrl(url, version, path) ==
    url \o <<"/", "api", "/", "v">> \o version \o <<"/">> \o lstrip(path)

\* raise APIError(f"API request failed: {error_message}", response=response)
RequestFailed(r) ==
    APIError(<<PyStr("API request failed: ")>> \o MessageOr(r, <<PyStr("Unknown error")>>),
             NoneNum, r, None)

\* Classify with the generic test for an error status first
Classify_generic_first(r, path) ==
    IF r.status = 204 THEN Returned(PyTrue)
    ELSE IF r.status >= 400 THEN Raised(RequestFailed(r))
    ELSE IF r.status = 429 THEN Raised(RateLimitError(PyNone, r))
    ELSE IF r.status = 404
         THEN Raised(ResourceNotFoundError(split(path)[Len(split(path))], r))
    ELSE IF r.status = 400 THEN Raised(ValidationError(NoneNum, PyNone, r))
    ELSE Returned(IF r.content /= "" THEN r.json ELSE JObject(EmptyDict))

\* Classify that raises the validation error without the response
Classify_plain_400(r, path) ==
    IF r.status = 204 THEN Returned(PyTrue)
    ELSE IF r.status = 429 THEN Raised(RateLimitError(PyNone, r))
    ELSE IF r.status = 404
         THEN Raised(ResourceNotFoundError(split(path)[Len(split(path))], r))
    ELSE IF r.status = 400 THEN Raised(ValidationError(NoneNum, PyNone, PyNone))
    ELSE IF r.status >= 400
         THEN IF r.content /= "" /\ r.json.j /= "object"
              THEN Raised(Exc("AttributeError"))
              ELSE Raised(RequestFailed(r))
    ELSE Returned(IF r.content /= "" THEN r.json ELSE JObject(EmptyDict))

\* Classify that hands the Retry-After header to the rate-limit error
Classify_header_first(r, path) ==
    IF r.status = 204 THEN Returned(PyTrue)
    ELSE IF r.status = 429 THEN Raised(RateLimitError(HeaderSeconds(r.retry_after_hdr), r))
    ELSE IF r.status = 404
         THEN Raised(ResourceNotFoundError(split(path)[Len(split(path))], r))
    ELSE IF r.status = 400 THEN Raised(ValidationError(NoneNum, PyNone, r))
    ELSE IF r.status >= 400
         THEN IF r.content /= "" /\ r.json.j /= "object"
              THEN Raised(Exc("AttributeError"))
              ELSE Raised(RequestFailed(r))
    ELSE Returned(IF r.content /= "" THEN r.json ELSE JObject(EmptyDict))

\* The response handling of _request, in the order the code tests the status.
Classify(r, path) ==
    IF r.status = 204 THEN Returned(PyTrue)
    ELSE IF r.status = 429 THEN Raised(RateLimitError(PyNone, r))
    ELSE IF r.status = 404
         THEN Raised(ResourceNotFoundError(split(path)[Len(split(path))], r))
    ELSE IF r.status = 400 THEN Raised(ValidationError(NoneNum, PyNone, r))
    ELSE IF r.status >= 400
         THEN IF r.content /= "" /\ r.json.j /= "object"
              THEN Raised(Exc("AttributeError"))
              ELSE Raised(RequestFailed(r))
    ELSE Returned(IF r.content /= "" THEN r.json ELSE JObject(EmptyDict))

CallRequest(t, method, path, headers) ==
    Begin(t, [NoCall EXCEPT !.op = "request", !.method = method, !.path = path,
                            !.headers = headers], "ea_check")

\* A headers entry in the caller's options collides with the headers keyword
\* of session.request(): the call raises TypeError and nothing is sent.
RequestSend(t) ==
    /\ pc[t] = "rq_send"
    /\ IF call[t].headers
       THEN /\ pc' = [pc EXCEPT ![t] = "idle"]
            /\ result' = [result EXCEPT ![t] = Raised(Exc("TypeError"))]
            /\ UNCHANGED <<obs, sent>>
       ELSE /\ pc' = [pc EXCEPT ![t] = "rq_wait"]
            /\ sent' = [sent EXCEPT ![t] =
                    [via |-> "dispatcher", method |-> call[t].method,
                     url |-> BuildUrl(api_url, api_version, call[t].path),
                     authz |-> Bearer(token), ensured |-> obs[t].ensured]]
            /\ obs' = [obs EXCEPT ![t].log = Append(@, Pending("api"))]
            /\ UNCHANGED result
    /\ UNCHANGED <<api_url, api_version, services, made, server, now, token, token_expiry, call, resp>>

\* RequestResponse that authenticates again after a 401 and sends the request
\* again after a 429, once
RequestResponse_retries(t) ==
    /\ pc[t] = "rq_wait"
    /\ \E r \in WireResponses :
        /\ resp' = [resp EXCEPT ![t] = r]
        /\ obs' = [obs EXCEPT ![t].log = Answered(@, r)]
        /\ IF r.exc = None /\ r.status \in {401, 429} /\ Len(obs[t].log) < 4
           THEN /\ pc' = [pc EXCEPT ![t] = IF r.status = 401 THEN "acq_send" ELSE "rq_send"]
                /\ UNCHANGED result
           ELSE /\ pc' = [pc EXCEPT ![t] = "idle"]
                /\ result' = [result EXCEPT ![t] =
                        IF r.exc /= None
                        THEN Raised(APIError(<<PyStr("Request failed: "), PyStr(r.exc)>>,
                                             NoneNum, PyNone, None))
                        ELSE Classify(r, call[t].path)]
    /\ UNCHANGED <<api_url, api_version, services, made, server, now, token, token_expiry, call, sent>>

RequestResponse(t) ==
    /\ pc[t] = "rq_wait"
    /\ \E r \in WireResponses :
        /\ resp' = [resp EXCEPT ![t] = r]
        /\ obs' = [obs EXCEPT ![t].log = Answered(@, r)]
        /\ result' = [result EXCEPT ![t] =
                IF r.exc /= None
                THEN Raised(APIError(<<PyStr("Request failed: "), PyStr(r.exc)>>,
                                     NoneNum, PyNone, None))
                ELSE Classify(r, call[t].path)]
    /\ pc' = [pc EXCEPT ![t] = "idle"]
    /\ UNCHANGED <<api_url, api_version, services, made, server, now, token, token_expiry, call, sent>>

\* ------------------------------------------------------------ resource services
\* "networks" is services/networks/service.py, "users" is
\* services/users/service.py and "network" is services/network.py.
PyNetwork == [py |-> "Network"]
Envelope(n, pagination) == [py |-> "envelope", data |-> n, pagination |-> pagination]

default_pagination(total, per_page) ==
    [total |-> total, page |-> 1, per_page |-> per_page, has_more |-> FALSE]

\* response.json() of a response without a body raises
NoJson(r) == r.content = ""

\* NormalizeMerged with a page size of 0 for a bare array
NormalizeMerged_page_size(data) ==
    IF data.j = "array"
    THEN Returned(Envelope(data.n, default_pagination(data.n, 0)))
    ELSE IF data.j = "object"
    THEN LET items == Get(data.v, "data", JArray(0))
             pagination == Get(data.v, "pagination", JObject(EmptyDict))
             defaults == default_pagination(items.n, items.n)
         IN  IF items.j /= "array" THEN Raised(Exc("TypeError"))
             ELSE IF pagination.j /= "object" THEN Raised(Exc("AttributeError"))
             ELSE Returned(Envelope(items.n,
                    [k \in DOMAIN defaults \cup DOMAIN pagination.v |->
                        IF k \in DOMAIN pagination.v THEN pagination.v[k] ELSE defaults[k]]))
    ELSE Returned(Envelope(0, default_pagination(0, 0)))

\* list() of the networks and users services after data = response.json()
NormalizeMerged(data) ==
    IF data.j = "array"
    THEN Returned(Envelope(data.n, default_pagination(data.n, data.n)))
    ELSE IF data.j = "object"
    THEN LET items == Get(data.v, "data", JArray(0))
             pagination == Get(data.v, "pagination", JObject(EmptyDict))
             defaults == default_pagination(items.n, items.n)
         IN  IF items.j /= "array" THEN Raised(Exc("TypeError"))
             ELSE IF pagination.j /= "object" THEN Raised(Exc("AttributeError"))
             ELSE Returned(Envelope(items.n,
                    [k \in DOMAIN defaults \cup DOMAIN pagination.v |->
                        IF k \in DOMAIN pagination.v THEN pagination.v[k] ELSE defaults[k]]))
    ELSE Returned(Envelope(0, default_pagination(0, 0)))

\* list() of services/network.py after data = response.json()
NormalizeRaw(data) ==
    IF data.j = "array"
    THEN Returned(Envelope(data.n, default_pagination(data.n, data.n)))
    ELSE IF data.j /= "object" THEN Raised(Exc("AttributeError"))
    ELSE LET items == Get(data.v, "data", JArray(0))
         IN  IF items.j /= "array" THEN Raised(Exc("TypeError"))
             ELSE Returned(Envelope(items.n,
                    IF "pagination" \in DOMAIN data.v
                    THEN (IF data.v["pagination"].j = "object"
                          THEN data.v["pagination"].v ELSE PyNone)
                    ELSE default_pagination(items.n, items.n)))

\* A resource object that has a created_at attribute.
NetworkWith(created_at) == [py |-> "Network", created_at |-> created_at]
PyDatetime(iso) == [py |-> "datetime", v |-> iso]

\* datetime.fromisoformat(value) after a final Z has become +00:00: the
\* instant, or None for a string that is no ISO-8601 timestamp
fromisoformat(value) ==
    CASE value = "2024-01-01T00:00:00Z" -> PyDatetime("2024-01-01T00:00:00+00:00")
      [] value = "2024-01-01T00:00:00+00:00" -> PyDatetime("2024-01-01T00:00:00+00:00")
      [] OTHER -> PyNone

\* parse_datetime of the networks and users services
parse_datetime(value) ==
    IF fromisoformat(value) = PyNone THEN PyStr(value) ELSE fromisoformat(value)

\* Network(**response.json()) and User(**response.json())
FromKwargs(r) ==
    IF NoJson(r) THEN Raised(Exc("JSONDecodeError"))
    ELSE IF r.json.j /= "object" THEN Raised(Exc("TypeError"))
    ELSE IF "created_at" \in DOMAIN r.json.v
    THEN Returned(NetworkWith(parse_datetime(r.json.v["created_at"])))
    ELSE Returned(PyNetwork)

\* Network.from_dict(response.json()): the dataclass needs id and name and
\* takes no field it does not declare
from_dict(r) ==
    IF NoJson(r) THEN Raised(Exc("JSONDecodeError"))
    ELSE IF r.json.j /= "object" THEN Raised(Exc("TypeError"))
    ELSE IF "created_at" \in DOMAIN r.json.v
            /\ fromisoformat(r.json.v["created_at"]) = PyNone
    THEN Raised(Exc("ValueError"))
    ELSE IF ~({"id", "name"} \subseteq DOMAIN r.json.v) \/ "data" \in DOMAIN r.json.v
    THEN Raised(Exc("TypeError"))
    ELSE IF "created_at" \in DOMAIN r.json.v
    THEN Returned(NetworkWith(fromisoformat(r.json.v["created_at"])))
    ELSE Returned(PyNetwork)

\* retry_after=error_data.get("error", {}).get("retry_after", response.headers.get("Retry-After"))
BodyOrHeaderHint(r) ==
    IF "retry_after" \in DOMAIN ErrorOf(r)
    THEN PyInt(ErrorOf(r)["retry_after"])
    ELSE PyOptStr(r.retry_after_hdr)

\* NetworkService._raise_api_error of services/network.py
raise_api_error(r, resource_id) ==
    IF ~NoJson(r) /\ r.json.j /= "object" THEN Raised(Exc("AttributeError"))
    ELSE LET code == Get(ErrorOf(r), "code", None)
         IN  IF r.status = 404 \/ code = "not_found"
             THEN Raised(ResourceNotFoundError(
                     IF resource_id = None THEN "unknown" ELSE resource_id, PyNone))
             ELSE IF r.status = 400 \/ code = "validation_error"
             THEN Raised(ValidationError(r.status, PyNone, PyNone))
             ELSE Raised(APIError(<<PyStr("API error: ")>> \o MessageOr(r, <<Text(r)>>), r.status, r, None))

\* services/networks/service.py
NetworksOutcome(sop, r) ==
    CASE sop = "list" ->
            IF r.status = 429
            THEN (IF NoJson(r) THEN Raised(Exc("JSONDecodeError"))
                  ELSE Raised(RateLimitError(BodyOrHeaderHint(r), r)))
            ELSE IF r.status /= 200 THEN Raised(APIError(MessageOr(r, FailedTo("Failed to list networks: ", r)), NoneNum, r, None))
            ELSE IF NoJson(r) THEN Raised(Exc("JSONDecodeError"))
            ELSE NormalizeMerged(r.json)
      [] sop = "create" ->
            IF r.status = 400
            THEN (IF NoJson(r) THEN Raised(Exc("JSONDecodeError"))
                  ELSE Raised(ValidationError(NoneNum, PyDict(Get(ErrorOf(r), "details", EmptyDict)), r)))
            ELSE IF r.status /= 201 THEN Raised(APIError(MessageOr(r, FailedTo("Failed to create network: ", r)), NoneNum, r, None))
            ELSE FromKwargs(r)
      [] sop = "get" ->
            IF r.status = 404 THEN Raised(ResourceNotFoundError(ResourceId, r))
            ELSE IF r.status /= 200 THEN Raised(APIError(MessageOr(r, FailedTo("Failed to get network: ", r)), NoneNum, r, None))
            ELSE FromKwargs(r)
      [] sop = "update" ->
            IF r.status = 404 THEN Raised(ResourceNotFoundError(ResourceId, r))
            ELSE IF r.status = 400 THEN Raised(ValidationError(NoneNum, PyNone, r))
            ELSE IF r.status /= 200 THEN Raised(APIError(FailedTo("Failed to update network: ", r), NoneNum, r, None))
            ELSE FromKwargs(r)
      [] sop = "delete" ->
            IF r.status = 404 THEN Raised(ResourceNotFoundError(ResourceId, r))
            ELSE IF r.status = 204 THEN Returned(PyTrue)
            ELSE IF r.status = 429
            THEN (IF NoJson(r) THEN Raised(Exc("JSONDecodeError"))
                  ELSE Raised(RateLimitError(BodyOrHeaderHint(r), r)))
            ELSE IF r.status >= 400 THEN Raised(APIError(MessageOr(r, FailedTo("Failed to delete network: ", r)), NoneNum, r, None))
            ELSE Returned(PyFalse)

\* services/users/service.py
UsersOutcome(sop, r) ==
    CASE sop = "list" ->
            IF r.status = 429 THEN Raised(RateLimitError(PyNone, r))
            ELSE IF r.status /= 200 THEN Raised(APIError(FailedTo("Failed to list users: ", r), NoneNum, r, None))
            ELSE IF NoJson(r) THEN Raised(Exc("JSONDecodeError"))
            ELSE NormalizeMerged(r.json)
      [] sop = "create" ->
            IF r.status = 400 THEN Raised(ValidationError(NoneNum, PyNone, r))
            ELSE IF r.status /= 201 THEN Raised(APIError(FailedTo("Failed to create user: ", r), NoneNum, r, None))
            ELSE FromKwargs(r)
      [] sop = "get" ->
            IF r.status = 404 THEN Raised(ResourceNotFoundError(ResourceId, r))
            ELSE IF r.status /= 200 THEN Raised(APIError(FailedTo("Failed to get user: ", r), NoneNum, r, None))
            ELSE FromKwargs(r)
      [] sop = "update" ->
            IF r.status = 404 THEN Raised(ResourceNotFoundError(ResourceId, r))
            ELSE IF r.status = 400 THEN Raised(ValidationError(NoneNum, PyNone, r))
            ELSE IF r.status /= 200 THEN Raised(APIError(FailedTo("Failed to update user: ", r), NoneNum, r, None))
            ELSE FromKwargs(r)
      [] sop = "delete" ->
            IF r.status = 404 THEN Raised(ResourceNotFoundError(ResourceId, r))
            ELSE IF r.status = 204 THEN Returned(PyTrue)
            ELSE IF r.status = 429 THEN Raised(RateLimitError(PyNone, r))
            ELSE IF r.status >= 400 THEN Raised(APIError(FailedTo("Failed to delete user: ", r), NoneNum, r, None))
            ELSE Returned(PyFalse)

\* services/network.py
NetworkOutcome(sop, r) ==
    CASE sop = "list" ->
            IF r.status = 429
            THEN Raised(RateLimitError(HeaderSeconds(r.retry_after_hdr), r))
            ELSE IF r.status /= 200 THEN raise_api_error(r, None)
            ELSE IF NoJson(r) THEN Raised(Exc("JSONDecodeError"))
            ELSE NormalizeRaw(r.json)
      [] sop = "create" ->
            IF r.status /= 201 THEN raise_api_error(r, None) ELSE from_dict(r)
      [] sop = "get" ->
            IF r.status /= 200 THEN raise_api_error(r, ResourceId) ELSE from_dict(r)
      [] sop = "update" ->
            IF r.status /= 200 THEN raise_api_error(r, ResourceId) ELSE from_dict(r)
      [] sop = "delete" ->
            IF r.status /= 204 THEN raise_api_error(r, ResourceId) ELSE Returned(PyTrue)

ServiceOutcome(svc, sop, r) ==
    CASE svc = "networks" -> NetworksOutcome(sop, r)
      [] svc = "users" -> UsersOutcome(sop, r)
      [] svc = "network" -> NetworkOutcome(sop, r)

\* The arguments a service rejects before it sends anything: an empty name
\* or email on create, a sort_order that is neither 'asc' nor 'desc' on list.
RejectsInput(svc, sop) ==
    \/ svc \in {"networks", "users"} /\ sop = "create"
    \/ svc = "network" /\ sop = "list"

InputError(svc) == IF svc = "network" THEN Exc("ValueError") ELSE ValidationError(NoneNum, IF svc = "networks" THEN PyDict([name |-> "Name cannot be empty"]) ELSE PyNone, PyNone)

ServiceMethod(sop) ==
    CASE sop \in {"list", "get"} -> "GET"
      [] sop = "create" -> "POST"
      [] sop = "update" -> "PATCH"
      [] sop = "delete" -> "DELETE"

ServiceUrl(svc, sop) ==
    LET collection == IF svc = "users" THEN "users" ELSE "networks"
        base == IF svc = "network"
                THEN api_url \o <<"/", collection>>
                ELSE api_url \o <<"/", "api", "/", "v">> \o api_version \o <<"/", collection>>
    IN  IF sop \in {"get", "update", "delete"} THEN base \o <<"/", ResourceId>> ELSE base

\* A service method up to its call on client._session.
ServiceCall(t, svc, sop, valid) ==
    /\ pc[t] = "idle"
    /\ call' = [call EXCEPT ![t] = [NoCall EXCEPT !.op = "service", !.svc = svc,
                                        !.sop = sop, !.valid = valid]]
    /\ resp' = [resp EXCEPT ![t] = NoResp]
    /\ IF RejectsInput(svc, sop) /\ ~valid
       THEN /\ result' = [result EXCEPT ![t] = Raised(InputError(svc))]
            /\ obs' = [obs EXCEPT ![t] = NoObs]
            /\ sent' = [sent EXCEPT ![t] = NoRequest]
            /\ UNCHANGED pc
       ELSE /\ result' = [result EXCEPT ![t] = NoResult]
            /\ obs' = [obs EXCEPT ![t] = [NoObs EXCEPT !.log = <<Pending("api")>>]]
            /\ sent' = [sent EXCEPT ![t] =
                    [via |-> "service", method |-> ServiceMethod(sop),
                     url |-> ServiceUrl(svc, sop), authz |-> <<>>, ensured |-> FALSE]]
            /\ pc' = [pc EXCEPT ![t] = "svc_wait"]
    /\ UNCHANGED <<api_url, api_version, services, made, server, now, token, token_expiry>>

\* The rest of the service method, from the response on.
ServiceResponse(t) ==
    /\ pc[t] = "svc_wait"
    /\ \E r \in WireResponses :
        /\ resp' = [resp EXCEPT ![t] = r]
        /\ obs' = [obs EXCEPT ![t].log = Answered(@, r)]
        /\ result' = [result EXCEPT ![t] =
                IF r.exc /= None THEN Raised(Exc(r.exc))
                ELSE ServiceOutcome(call[t].svc, call[t].sop, r)]
    /\ pc' = [pc EXCEPT ![t] = "idle"]
    /\ UNCHANGED <<api_url, api_version, services, made, server, now, token, token_expiry, call, sent>>

\* ------------------------------------------------------------------- clock
Blocked(t) == pc[t] \in {"idle", "rf_wait", "acq_wait", "rq_wait", "svc_wait"}

Tick ==
    /\ \A t \in Threads : Blocked(t)
    /\ now + TickStep <= MaxTime
    /\ now' = now + TickStep
    /\ UNCHANGED <<api_url, api_version, services, made, server, token, token_expiry, pc, call,
                 resp, obs, sent, result>>

\* ----------------------------------------------------------- specification
\* A client that has just been constructed with the configuration url, version;
\* no service has been accessed; the server is of the kind srv.
ConstructedWith(url, version, srv) ==
    /\ api_url = url
    /\ api_version = version
    /\ services = [c \in Clients |-> [name \in ServiceNames |-> PyNone]]
    /\ made = [c \in Clients |-> [name \in ServiceNames |-> 0]]
    /\ server = srv
    /\ now = 1
    /\ token = None
    /\ token_expiry = NoneNum
    /\ pc = [t \in Threads |-> "idle"]
    /\ call = [t \in Threads |-> NoCall]
    /\ resp = [t \in Threads |-> NoResp]
    /\ obs = [t \in Threads |-> NoObs]
    /\ sent = [t \in Threads |-> NoRequest]
    /\ result = [t \in Threads |-> NoResult]

\* The server keeps to the wire protocol.
Constructed(url, version) == ConstructedWith(url, version, "conforming")

Init == Constructed(ApiUrl, ApiVersion)

\* The token endpoint may leave keys out of the body of a 200.
InitLoose == ConstructedWith(ApiUrl, ApiVersion, "loose")

InitClient == \E url \in ApiUrls, version \in ApiVersions : Constructed(url, version)

\* Before a client is constructed.
InitNew == Constructed(<<>>, <<>>)

\* The Authenticator on its own.
AuthStep(t) ==
    \/ CallEnsure(t)
    \/ CallToken(t)
    \/ EnsureCheck(t)
    \/ TryRefresh(t)
    \/ RefreshResponse(t)
    \/ RefreshSetToken(t)
    \/ RefreshSetExpiry(t)
    \/ AcquireSend(t)
    \/ AcquireResponse(t)
    \/ AcquireSetToken(t)
    \/ AcquireSetExpiry(t)

\* The Authenticator and the Dispatcher.
DispatchStep(t) ==
    \/ AuthStep(t)
    \/ \E m \in Methods, p \in Paths, h \in BOOLEAN : CallRequest(t, m, p, h)
    \/ RequestSend(t)
    \/ RequestResponse(t)

\* The whole client, services included.
Step(t) ==
    \/ DispatchStep(t)
    \/ \E svc \in Services, sop \in Operations, valid \in BOOLEAN :
            /\ (~valid => RejectsInput(svc, sop))
            /\ ServiceCall(t, svc, sop, valid)
    \/ ServiceResponse(t)
    \/ \E cls \in ClientClasses : CallAuthenticate(t, cls)

\* The Dispatcher while the clock stands still.
NextClient == \E t \in SeqThreads : DispatchStep(t)

\* The constructor, and the Dispatcher of the client it has constructed.
NextConstruct ==
    \E t \in SeqThreads :
        \/ \E cls \in ClientClasses, url \in UrlInputs, version \in VersionInputs,
              env \in EnvVersions : Construct(t, cls, url, version, env)
        \/ api_version /= <<>> /\ DispatchStep(t)

\* The service properties of the clients, one access at a time.
NextRegistry ==
    \E t \in SeqThreads :
        \/ \E c \in Clients, name \in ServiceNames : AccessCheck(t, c, name)
        \/ AccessMake(t)

\* Two threads in the Authenticator of one client, while the clock stands still.
NextRace == \E t \in Threads : AuthStep(t)

\* Two threads that call client.networks.list() on the exported client: the
\* networks property, then list() of the service it returned.
NextShared ==
    \E t \in Threads :
        \/ AccessCheck(t, 3, "networks")
        \/ AccessMake(t)
        \/ /\ call[t].op = "access"
           /\ result[t].kind = "return"
           /\ ServiceCall(t, "network", "list", TRUE)
        \/ ServiceResponse(t)

\* One thread in the Authenticator.
NextLoose == Tick \/ \E t \in SeqThreads : AuthStep(t)

NextDispatch == Tick \/ \E t \in SeqThreads : DispatchStep(t)

Next == Tick \/ \E t \in SeqThreads : Step(t)

SpecDispatch == Init /\ [][NextDispatch]_vars

SpecClient == InitClient /\ [][NextClient]_vars

SpecConstruct == InitNew /\ [][NextConstruct]_vars

SpecRegistry == Init /\ [][NextRegistry]_vars

SpecRace == Init /\ [][NextRace]_vars

SpecShared == Init /\ [][NextShared]_vars

SpecLoose == InitLoose /\ [][NextLoose]_vars

Spec == Init /\ [][Next]_vars

\* ------------------------------------------------------------------ properties
Last(log) == log[Len(log)]

\* The validity invariant of the data model: a token is stored and
\* now < expires_at - 30s.
ValidityInvariant ==
    token /= None /\ token_expiry /= NoneNum /\ now < token_expiry - Buffer

\* The call of kind op of thread t is over.
Finished(t, op) == call[t].op = op /\ pc[t] = "idle" /\ result[t].kind /= "none"

\* A logged auth call was answered, and not with a 200.
Failed(e) == e.exc /= None \/ (e.status /= 0 /\ e.status /= 200)

\* The step at which ensure_authenticated() returns normally.
EnsureReturns(t) == ~obs[t].ensured /\ obs'[t].ensured

\* C1: whenever ensure_authenticated() runs its check in a state where a token
\* is stored and now < expires_at - 30s, it returns normally at once: no refresh
\* POST, no acquisition POST, and the stored token and expiry stay as they were.
C1_ValidTokenNoNetwork ==
    [][\A t \in Threads :
        (pc[t] = "ea_check" /\ pc'[t] /= "ea_check" /\ ValidityInvariant)
        => /\ obs'[t].ensured
           /\ obs'[t].log = <<>>
           /\ pc'[t] \in {"idle", "rq_send"}
           /\ (pc'[t] = "idle" /\ call[t].op = "ensure" => result'[t] = Returned(PyNone))
           /\ token' = token
           /\ token_expiry' = token_expiry]_vars

C1_Witness ==
    \E t \in Threads :
        /\ Finished(t, "ensure")
        /\ result[t] = Returned(PyNone)
        /\ obs[t].log = <<>>
        /\ ValidityInvariant

\* C2: with a stored token that is not valid, ensure_authenticated() issues one
\* refresh call, never a second one, and after a 200 answer to it the call goes
\* on to return without an acquisition; with no stored token it goes to the
\* acquisition without a refresh call.
C2_Paths(t) ==
    LET log == obs[t].log
    IN  /\ Count(log, "refresh") <= 1
        /\ Count(log, "acquire") <= 1
        /\ (log /= <<>> /\ log[1].kind = "refresh" /\ log[1].status = 200)
           => /\ Count(log, "acquire") = 0
              /\ pc[t] \notin {"ea_refresh", "acq_send", "acq_wait",
                               "acq_set_token", "acq_set_expiry"}
              /\ (Finished(t, "ensure") => result[t] = Returned(PyNone))
        /\ (log /= <<>> /\ log[1].kind = "acquire") => Count(log, "refresh") = 0

C2_RefreshOnceElseAcquire ==
    [][\A t \in Threads :
        /\ (pc[t] = "ea_check" /\ pc'[t] /= "ea_check" /\ ~ValidityInvariant)
           => (pc'[t] = "ea_refresh" /\ obs'[t].log = <<>>)
        /\ (pc[t] = "ea_refresh" /\ pc'[t] /= "ea_refresh" /\ token /= None)
           => (pc'[t] = "rf_wait" /\ obs'[t].log = <<Pending("refresh")>>)
        /\ (pc[t] = "ea_refresh" /\ pc'[t] /= "ea_refresh" /\ token = None)
           => (pc'[t] = "acq_send" /\ obs'[t].log = <<>>)
        /\ (pc[t] = "acq_send" /\ pc'[t] /= "acq_send")
           => (pc'[t] = "acq_wait" /\ obs'[t].log = Append(obs[t].log, Pending("acquire")))
        /\ C2_Paths(t)']_vars

C2_Witness ==
    \E t \in Threads :
        /\ Finished(t, "ensure")
        /\ result[t] = Returned(PyNone)
        /\ Len(obs[t].log) = 1
        /\ obs[t].log[1].kind = "refresh"
        /\ obs[t].log[1].status = 200

\* C3: once the refresh call of ensure_authenticated() has failed (a status
\* other than 200, or a network exception), nothing is raised for it: the
\* acquisition is the next call, and when the acquisition is answered with 200
\* ensure_authenticated() returns normally and the stored token is the acquired
\* one.
C3_RefreshFailureFallsBack ==
    \A t \in Threads :
        LET log == obs[t].log
        IN  (log /= <<>> /\ log[1].kind = "refresh" /\ Failed(log[1]))
            => /\ \/ pc[t] = "acq_send" /\ Len(log) = 1
                  \/ Len(log) >= 2 /\ log[2].kind = "acquire"
               /\ (Len(log) >= 2 /\ log[2].status = 200)
                  => /\ pc[t] \in {"acq_set_token", "acq_set_expiry"} \/ obs[t].ensured
                     /\ Finished(t, "ensure")
                        => /\ result[t] = Returned(PyNone)
                           /\ token = resp[t].access_token
                           /\ token \in Tokens

C3_Witness ==
    \E t \in Threads :
        /\ Finished(t, "ensure")
        /\ result[t] = Returned(PyNone)
        /\ Len(obs[t].log) = 2
        /\ obs[t].log[1].kind = "refresh"
        /\ obs[t].log[1].status = 401
        /\ obs[t].log[2].status = 200
        /\ token = resp[t].access_token

\* C4: an acquisition answered with a status other than 200 ends the call with
\* an AuthenticationError that carries that status and the response; an
\* acquisition that hits a network exception ends it with an AuthenticationError
\* that carries the exception; in both cases the error leaves
\* ensure_authenticated().
C4_AcquisitionFailureRaises ==
    \A t \in Threads :
        LET log == obs[t].log
        IN  (log /= <<>> /\ Last(log).kind = "acquire" /\ Failed(Last(log)))
            => /\ pc[t] = "idle"
               /\ result[t].kind = "raise"
               /\ result[t].error.type = "AuthenticationError"
               /\ Last(log).exc = None
                  => /\ result[t].error.status_code = Last(log).status
                     /\ result[t].error.response = resp[t]
                     /\ resp[t].status = Last(log).status
                     /\ result[t].error.original_error = None
               /\ Last(log).exc /= None
                  => /\ result[t].error.original_error = Last(log).exc
                     /\ result[t].error.status_code = NoneNum

C4_Witness ==
    \E t \in Threads :
        /\ Finished(t, "ensure")
        /\ result[t].kind = "raise"
        /\ result[t].error.type = "AuthenticationError"
        /\ result[t].error.status_code = 401
        /\ result[t].error.response.status = 401

\* C5: the stored token and expiry change only in a step of a refresh or an
\* acquisition whose call was answered with 200; every other step (a failed
\* refresh, a failed acquisition, a read of the token accessor, any outcome of
\* a Dispatcher request) leaves both as they were, and a read of the token
\* accessor makes no call on the network.
C5_TokenFrame ==
    [][/\ (token' /= token \/ token_expiry' /= token_expiry)
          => \E t \in Threads :
                /\ pc[t] \in {"rf_set_token", "rf_set_expiry",
                              "acq_set_token", "acq_set_expiry"}
                /\ Last(obs[t].log).kind \in {"refresh", "acquire"}
                /\ Last(obs[t].log).status = 200
                /\ resp[t].status = 200
       /\ \A t \in Threads :
            (call'[t].op = "token")
            => /\ obs'[t].log = <<>>
               /\ sent'[t] = NoRequest
               /\ pc'[t] = "idle"
               /\ result'[t] = Returned(PyOptStr(token'))]_vars

C5_Witness ==
    \E t \in Threads :
        /\ Finished(t, "ensure")
        /\ result[t].kind = "raise"
        /\ Len(obs[t].log) = 2
        /\ Failed(obs[t].log[1])
        /\ Failed(obs[t].log[2])
        /\ token \in Tokens
        /\ token_expiry /= NoneNum

C7_AuthFailureFailsFast ==
    \A t \in Threads :
        LET log == obs[t].log
        IN  call[t].op = "request"
            => /\ (sent[t] /= NoRequest => sent[t].ensured)
               /\ (pc[t] \in {"rq_send", "rq_wait"} => obs[t].ensured)
               /\ (Count(log, "api") > 0 => sent[t] /= NoRequest)
               /\ (log /= <<>> /\ Last(log).kind = "acquire" /\ Failed(Last(log)))
                  => /\ pc[t] = "idle"
                     /\ result[t].kind = "raise"
                     /\ result[t].error.type = "AuthenticationError"
                     /\ result[t].error =
                            IF resp[t].exc /= None
                            THEN AuthenticationError(NoneNum, PyNone, resp[t].exc)
                            ELSE AuthenticationError(resp[t].status, resp[t], None)
                     /\ sent[t] = NoRequest
                     /\ Count(log, "api") = 0

C7_Witness ==
    \E t \in Threads :
        /\ Finished(t, "request")
        /\ result[t].kind = "raise"
        /\ result[t].error.type = "AuthenticationError"
        /\ result[t].error.status_code = 500
        /\ sent[t] = NoRequest

\* C8: every API request on the wire was sent by the Dispatcher after
\* ensure_authenticated() had returned, and carries an Authorization header
\* with a Bearer token.
C8_AllRequestsAuthenticated ==
    \A t \in Threads :
        sent[t] /= NoRequest
        => /\ sent[t].via = "dispatcher"
           /\ sent[t].ensured
           /\ sent[t].authz /= <<>>
           /\ sent[t].authz[1] = "Bearer"
           /\ sent[t].authz[2] \in Tokens

Answer(t) ==
    /\ Finished(t, "request")
    /\ obs[t].log /= <<>>
    /\ Last(obs[t].log).kind = "api"
    /\ Last(obs[t].log).exc = None

\* The last segment of a path: its last piece that is not a slash.
LastSegment(path) ==
    LET segments == {i \in DOMAIN path : path[i] /= "/"}
    IN  path[CHOOSE i \in segments : \A j \in segments : j <= i]

\* C11: a Dispatcher request answered with 404 ends with a
\* ResourceNotFoundError whose status_code is 404 and whose resource_id is the
\* last segment of the request path, also when the path ends in a slash.
C11_ResourceIdIsLastSegment ==
    \A t \in Threads :
        (Answer(t) /\ resp[t].status = 404)
        => /\ result[t].kind = "raise"
           /\ result[t].error.type = "ResourceNotFoundError"
           /\ result[t].error.status_code = 404
           /\ result[t].error.resource_id = LastSegment(call[t].path)

\* C12: a Dispatcher request answered with a status from 400 up other than
\* 400, 404 and 429 ends with an APIError whose message gives error.message of
\* the JSON body when the body has one, and the raw response text otherwise.
C12_GenericErrorMessage ==
    \A t \in Threads :
        (Answer(t) /\ resp[t].status >= 400 /\ resp[t].status \notin {400, 404, 429})
        => /\ result[t].kind = "raise"
           /\ result[t].error.type = "APIError"
           /\ result[t].error.message /= <<>>
           /\ Last(result[t].error.message) =
                IF "message" \in DOMAIN ErrorOf(resp[t])
                THEN PyStr(ErrorOf(resp[t])["message"])
                ELSE Text(resp[t])

\* C13: a Dispatcher request whose API call fails with a network exception
\* ends with an APIError whose original_error is that exception, and the
\* typed errors of the classification (RateLimitError, ResourceNotFoundError,
\* ValidationError) leave _request as they are.
C13_NetworkErrorWrapped ==
    \A t \in Threads :
        (Finished(t, "request") /\ obs[t].log /= <<>> /\ Last(obs[t].log).kind = "api")
        => /\ Last(obs[t].log).exc /= None
              => /\ result[t].kind = "raise"
                 /\ result[t].error.type = "APIError"
                 /\ result[t].error.original_error = Last(obs[t].log).exc
           /\ (Last(obs[t].log).exc = None /\ resp[t].status \in {400, 404, 429})
              => /\ result[t].kind = "raise"
                 /\ result[t].error.type \in {"RateLimitError", "ResourceNotFoundError",
                                               "ValidationError"}
                 /\ result[t].error.original_error = None

RECURSIVE rstrip(_)
rstrip(p) == IF p /= <<>> /\ p[Len(p)] = "/" THEN rstrip(SubSeq(p, 1, Len(p) - 1)) ELSE p

\* base + /api/v{version}/ + path with one slash at each join and one v
JoinedUrl(url, version, path) ==
    rstrip(url) \o <<"/", "api", "/", "v">> \o lstrip_v(version) \o <<"/">> \o lstrip(path)

\* C15: for every accepted base URL, every accepted api_version and every
\* path, the URL of a Dispatcher request is base + /api/v{version}/ + path with
\* exactly one slash at each join and exactly one v before the version number.
C15_UrlJoin ==
    \A t \in Threads :
        sent[t].via = "dispatcher"
        => sent[t].url = JoinedUrl(api_url, api_version, call[t].path)

\* C16: a Dispatcher request that is sent carries Authorization: Bearer <the
\* stored token>, and a request whose caller supplies headers in the options is
\* sent like any other: once ensure_authenticated() has returned, the call
\* does not end without a request on the wire.
C16_AuthorizationHeaderKept ==
    \A t \in Threads :
        call[t].op = "request"
        => /\ sent[t] /= NoRequest => sent[t].authz = Bearer(token)
           /\ (obs[t].ensured /\ pc[t] = "idle") => sent[t] /= NoRequest

\* The list() call of a service by thread t is over and was answered with a
\* 200 that has a JSON body.
Listed(t) ==
    /\ Finished(t, "service")
    /\ call[t].sop = "list"
    /\ obs[t].log /= <<>>
    /\ Last(obs[t].log).status = 200
    /\ resp[t].content /= ""

\* The body is an object with a data array and a pagination object.
Paginated(body) ==
    /\ body.j = "object"
    /\ "data" \in DOMAIN body.v
    /\ body.v["data"].j = "array"
    /\ "pagination" \in DOMAIN body.v
    /\ body.v["pagination"].j = "object"

\* The body is JSON but no list: null, a scalar, or an object whose data or
\* pagination is null or a scalar.
Malformed(body) ==
    \/ body.j \in {"null", "scalar"}
    \/ /\ body.j = "object"
       /\ \/ "data" \in DOMAIN body.v /\ body.v["data"].j \in {"null", "scalar"}
          \/ "pagination" \in DOMAIN body.v /\ body.v["pagination"].j \in {"null", "scalar"}

C18_PartialPaginationFilled ==
    \A t \in Threads :
        (Listed(t) /\ Paginated(resp[t].json))
        => LET upstream == resp[t].json.v["pagination"].v
               N == resp[t].json.v["data"].n
               defaults == [total |-> N, page |-> 1, per_page |-> N, has_more |-> FALSE]
           IN  /\ result[t].kind = "return"
               /\ result[t].value.data = N
               /\ result[t].value.pagination /= PyNone
               /\ DOMAIN result[t].value.pagination = DOMAIN defaults \cup DOMAIN upstream
               /\ \A k \in DOMAIN defaults \cup DOMAIN upstream :
                    result[t].value.pagination[k] =
                        IF k \in DOMAIN upstream THEN upstream[k] ELSE defaults[k]

\* C19: list() of every service, answered with a 200 whose body is JSON but
\* malformed, raises nothing and returns the empty envelope
\* {data: [], pagination: {total: 0, page: 1, per_page: 0, has_more: false}}.
C19_MalformedIsEmpty ==
    \A t \in Threads :
        (Listed(t) /\ Malformed(resp[t].json))
        => result[t] = Returned([py |-> "envelope", data |-> 0,
                                 pagination |-> [total |-> 0, page |-> 1,
                                                 per_page |-> 0, has_more |-> FALSE]])

\* C20: authenticate() returns True when its ensure_authenticated() returned
\* normally and False when it raised; it raises nothing and returns nothing
\* but a boolean.
C20_AuthenticateIsBoolean ==
    \A t \in Threads :
        Finished(t, "authenticate")
        => /\ result[t].kind = "return"
           /\ result[t].value \in {PyTrue, PyFalse}
           /\ result[t].value = PyTrue <=> obs[t].ensured

\* C21: a client that has been constructed has the api_version "1.0" or
\* "1.1.0", whether the version came by argument or from the environment, and
\* no request URL is built with another.
C21_SupportedVersionOnly ==
    /\ api_version /= <<>> => api_version \in {<<"1.0">>, <<"1.1.0">>}
    /\ \A t \in Threads :
            (call[t].op = "construct" /\ result[t].kind = "return")
            => api_version \in {<<"1.0">>, <<"1.1.0">>}

\* The get, create or update call of a service by thread t is over and was
\* answered with its success status and a resource that has a created_at.
Fetched(t) ==
    /\ Finished(t, "service")
    /\ call[t].sop \in {"get", "create", "update"}
    /\ obs[t].log /= <<>>
    /\ Last(obs[t].log).status = (IF call[t].sop = "create" THEN 201 ELSE 200)
    /\ resp[t].content /= ""
    /\ resp[t].json.j = "object"
    /\ {"id", "name", "created_at"} \subseteq DOMAIN resp[t].json.v

\* C22: a resource whose created_at is no ISO-8601 timestamp is constructed
\* without an error, by every service, and its created_at is the string as
\* it came; a created_at that is one becomes the instant.
C22_BadTimestampKept ==
    \A t \in Threads :
        Fetched(t)
        => LET raw == resp[t].json.v["created_at"]
           IN  result[t] = Returned([py |-> "Network", created_at |->
                    IF raw \in {"2024-01-01T00:00:00Z", "2024-01-01T00:00:00+00:00"}
                    THEN [py |-> "datetime", v |-> "2024-01-01T00:00:00+00:00"]
                    ELSE [py |-> "str", v |-> raw]])

C24_NoMutualExclusion ==
    \A t \in Threads :
        /\ pc[t] = "idle" => ENABLED CallEnsure(t)
        /\ pc[t] = "ea_check" => ENABLED EnsureCheck(t)
        /\ pc[t] = "ea_refresh" => ENABLED TryRefresh(t)
        /\ pc[t] = "acq_send" => ENABLED AcquireSend(t)

C24_Witness ==
    /\ token = None
    /\ \A t \in Threads :
            /\ call[t].op = "ensure"
            /\ pc[t] = "acq_wait"
            /\ obs[t].log = <<Pending("acquire")>>

\* C29: when the calls of ensure_authenticated() of both threads have stored
\* the token and expiry of a 200 response and are over, the stored token and
\* the stored expiry are those of one of the two responses, never the token
\* of one with the expiry of the other.
C29_PairFromOneResponse ==
    (\A t \in Threads : Finished(t, "ensure") /\ resp[t].status = 200)
    => \E t \in Threads :
            /\ token = resp[t].access_token
            /\ token_expiry = now + resp[t].expires_in

\* C25: with several threads in client.networks.list() on one client, every
\* access of the networks property returns a service, and every list() that
\* is answered with the 200 bare array of two items returns the envelope of
\* two items with the pagination {total: 2, page: 1, per_page: 2, has_more:
\* false}, whatever the other threads are doing.
C25_ConcurrentListsAgree ==
    \A t \in Threads :
        /\ Finished(t, "access")
           => /\ result[t].kind = "return"
              /\ result[t].value /= PyNone
              /\ result[t].value.py = "service"
        /\ (Listed(t) /\ resp[t].json = JArray(2))
           => result[t] = Returned(Envelope(2, default_pagination(2, 2)))

C25_Witness ==
    /\ made[3]["networks"] = 2
    /\ \A t \in Threads :
            /\ Listed(t)
            /\ resp[t].json = JArray(2)
            /\ result[t].kind = "return"
            /\ result[t].value.data = 2

\* The delete call of a service by thread t is over and was answered with
\* an HTTP response.
Deleted(t) ==
    /\ Finished(t, "service")
    /\ call[t].sop = "delete"
    /\ obs[t].log /= <<>>
    /\ Last(obs[t].log).status /= 0

TypedErrors ==
    {"AuthenticationError", "APIError", "RateLimitError", "ResourceNotFoundError",
     "ValidationError"}

\* C26: delete() of every service returns True when the status is 204 and only
\* then; with any other status it raises one of the library's errors; it
\* never returns False.
C26_DeleteTrueOrRaises ==
    \A t \in Threads :
        Deleted(t)
        => /\ result[t] /= Returned(PyFalse)
           /\ result[t] = Returned(PyTrue) <=> resp[t].status = 204
           /\ resp[t].status /= 204
              => /\ result[t].kind = "raise"
                 /\ result[t].error.type \in TypedErrors

\* The error kind of a status in the priority order 429, 404, 400, other >= 400
CanonicalKind(status) ==
    CASE status = 429 -> "RateLimitError"
      [] status = 404 -> "ResourceNotFoundError"
      [] status = 400 -> "ValidationError"
      [] OTHER -> "APIError"

\* A call of thread t that sent one API request is over and the request was
\* answered with an error status.
AnsweredError(t) ==
    /\ pc[t] = "idle"
    /\ result[t].kind /= "none"
    /\ obs[t].log /= <<>>
    /\ Last(obs[t].log).kind = "api"
    /\ Last(obs[t].log).status >= 400

\* C30: every operation of both NetworkService implementations, and the
\* Dispatcher, answered with a status >= 400 raises the error kind that the
\* priority order gives the status: RateLimitError for 429,
\* ResourceNotFoundError for 404, ValidationError for 400, APIError otherwise.
C30_CanonicalErrorKind ==
    \A t \in Threads :
        (AnsweredError(t) /\ (call[t].op = "request" \/ call[t].svc \in {"networks", "network"}))
        => /\ result[t].kind = "raise"
           /\ result[t].error.type = CanonicalKind(resp[t].status)

\* How far a call has come: every step of a call moves it forward.
Rank(where) ==
    CASE where = "ea_check" -> 1
      [] where = "ea_refresh" -> 2
      [] where = "rf_wait" -> 3
      [] where = "rf_set_token" -> 4
      [] where = "rf_set_expiry" -> 5
      [] where = "acq_send" -> 6
      [] where = "acq_wait" -> 7
      [] where = "acq_set_token" -> 8
      [] where = "acq_set_expiry" -> 9
      [] where = "rq_send" -> 10
      [] where = "rq_wait" -> 11
      [] OTHER -> 12

\* The kinds of the HTTP calls of a log, in the order they were made
Kinds(log) == [i \in 1..Len(log) |-> log[i].kind]

SingleAttempts ==
    { <<>>, <<"refresh">>, <<"acquire">>, <<"refresh", "acquire">> }

\* C27: every step of ensure_authenticated() and of a Dispatcher request moves
\* the call forward, so the call ends; its HTTP calls are at most one refresh
\* POST, then at most one acquisition POST, then at most one API request; the
\* step that receives the answer to the API request, whatever the answer, ends
\* the call with that one API request sent and the token and expiry untouched.
C27_SingleAttempt ==
    [][\A t \in Threads :
        /\ (pc[t] /= "idle" /\ (pc'[t] /= pc[t] \/ obs'[t] /= obs[t]))
           => Rank(pc'[t]) > Rank(pc[t])
        /\ Kinds(obs'[t].log) \in
                SingleAttempts \cup { k \o <<"api">> : k \in SingleAttempts }
        /\ (call'[t].op = "ensure" => Kinds(obs'[t].log) \in SingleAttempts)
        /\ (pc[t] = "rq_wait" /\ resp'[t] /= resp[t])
           => /\ pc'[t] = "idle"
              /\ result'[t].kind /= "none"
              /\ Len(SelectSeq(obs'[t].log, LAMBDA e : e.kind = "api")) = 1
              /\ token' = token
              /\ token_expiry' = token_expiry]_vars

C27_Witness ==
    \E t \in Threads :
        /\ Finished(t, "request")
        /\ resp[t].status = 401
        /\ Kinds(obs[t].log) = <<"refresh", "acquire", "api">>
        /\ result[t].kind = "raise"

\* C28: in sequential use the step that parses a 200 answer of the token
\* endpoint either stores the token of the answer and goes on to store the
\* expiry, or changes neither field; the step that follows stores the time of
\* the answer plus its expires_in next to the token of the same answer and
\* raises nothing; and every error that leaves ensure_authenticated() is an
\* AuthenticationError.
C28_TokenAndExpiryTogether ==
    [][\A t \in SeqThreads :
        /\ (pc[t] \in {"rf_set_token", "acq_set_token"} /\ pc'[t] /= pc[t])
           => \/ /\ token' = resp[t].access_token
                 /\ token' \in Tokens
                 /\ pc'[t] \in {"rf_set_expiry", "acq_set_expiry"}
              \/ /\ token' = token
                 /\ token_expiry' = token_expiry
                 /\ pc'[t] = "idle"
        /\ (pc[t] \in {"rf_set_expiry", "acq_set_expiry"} /\ pc'[t] /= pc[t])
           => /\ token' = resp[t].access_token
              /\ resp[t].expires_in \in ExpiresIns
              /\ token_expiry' = now + resp[t].expires_in
              /\ obs'[t].ensured
        /\ (call'[t].op = "ensure" /\ result'[t].kind = "raise")
           => result'[t].error.type = "AuthenticationError"]_vars

====
